---------------------------- MODULE Spec2Model ----------------------------
(***************************************************************************)
(* tools/global_domains.py of vaultwarden: the script that fetches the     *)
(* enum file and the domain-list file of the upstream Bitwarden server     *)
(* repository, extracts both with regular expressions, joins them by name  *)
(* and writes the global equivalent domains as JSON.                       *)
(*                                                                         *)
(* A Python str is a sequence of one-character strings; a line of a        *)
(* fetched text is such a sequence, a text is the sequence of its lines    *)
(* (what .split('\n') returns, so never empty).  A dict is a function, an  *)
(* OrderedDict a sequence of <<key, value>> pairs in insertion order.      *)
(***************************************************************************)
EXTENDS Integers, Sequences, FiniteSets

(***************************************************************************)
(* Bounds of the model.                                                    *)
(***************************************************************************)
MaxArgs == 3
MaxEnumLines == 2
MaxListLines == 3
MaxSpanLen == 2
MaxEnumLineLen == 5

(***************************************************************************)
(* Characters and the character classes of the two patterns.               *)
(***************************************************************************)
Letters ==
    {"a", "b", "c", "d", "e", "f", "g", "h", "i", "j", "k", "l", "m",
     "n", "o", "p", "q", "r", "s", "t", "u", "v", "w", "x", "y", "z",
     "A", "B", "C", "D", "E", "F", "G", "H", "I", "J", "K", "L", "M",
     "N", "O", "P", "Q", "R", "S", "T", "U", "V", "W", "X", "Y", "Z"}

Digits == {"0", "1", "2", "3", "4", "5", "6", "7", "8", "9"}

\* \s of a str pattern, on a line that holds no "\n".
Whitespace == {" ", "\t", "\r", "\f"}

\* Whether character c is in character class cls:
\*   "s" is \s, "w" is [_0-9a-zA-Z], "d" is [0-9], "nb" is [^}].
InClass(c, cls) ==
    CASE cls = "s"  -> c \in Whitespace
      [] cls = "w"  -> c \in Letters \cup Digits \cup {"_"}
      [] cls = "d"  -> c \in Digits
      [] cls = "nb" -> c # "}"

(***************************************************************************)
(* A pattern is a sequence of items: a literal, or a greedy repetition of  *)
(* a character class with a minimum count (0 for *, 1 for +).              *)
(***************************************************************************)
Lit(str) == [kind |-> "lit", str |-> str, cls |-> "", min |-> 0]
Star(cls) == [kind |-> "rep", str |-> <<>>, cls |-> cls, min |-> 0]
Plus(cls) == [kind |-> "rep", str |-> <<>>, cls |-> cls, min |-> 1]

LitPrefix ==
    <<"G", "l", "o", "b", "a", "l", "D", "o", "m", "a", "i", "n", "s", ".",
      "A", "d", "d", "(", "G", "l", "o", "b", "a", "l", "E", "q", "u", "i",
      "v", "a", "l", "e", "n", "t", "D", "o", "m", "a", "i", "n", "s", "T",
      "y", "p", "e", ".">>

LitNewList ==
    <<"n", "e", "w", " ", "L", "i", "s", "t", "<", "s", "t", "r", "i", "n",
      "g", ">">>

LitClose == <<"}", ")", ";">>

ENUM_RE ==
    << Star("s"),          \* Leading whitespace (optional).
       Plus("w"),          \* Enum name (capture group 1).
       Star("s"), Lit(<<"=">>), Star("s"),
       Plus("d") >>        \* Enum value (capture group 2).

DOMAIN_LIST_RE ==
    << Star("s"),          \* Leading whitespace (optional).
       Lit(LitPrefix),
       Plus("w"),          \* Enum name (capture group 1).
       Star("s"), Lit(<<",">>), Star("s"), Lit(LitNewList), Star("s"),
       Lit(<<"{">>),
       Plus("nb"),         \* Domain list (capture group 2).
       Lit(LitClose) >>

\* The item of each pattern that is capture group 1 and capture group 2.
EnumGroups == <<2, 6>>
DomainListGroups == <<3, 10>>

(***************************************************************************)
(* The backtracking matcher.  A result is [ok, ends]: ends[j] is the       *)
(* offset in s after item k+j-1.                                           *)
(***************************************************************************)
NoMatch == [ok |-> FALSE, ends |-> <<>>]

\* Whether literal str stands in s at offset i.
LitAt(s, i, str) ==
    /\ i + Len(str) <= Len(s)
    /\ \A j \in 1..Len(str) : s[i + j] = str[j]

\* The length of the longest run of cls characters in s from offset i.
RECURSIVE RunLen(_, _, _)
RunLen(s, i, cls) ==
    IF i < Len(s) /\ InClass(s[i + 1], cls) THEN 1 + RunLen(s, i + 1, cls) ELSE 0

RECURSIVE MatchFrom(_, _, _, _)
RECURSIVE TryRep(_, _, _, _, _)

\* Items k.. of re against s from offset i.
MatchFrom(re, k, s, i) ==
    IF k > Len(re) THEN [ok |-> TRUE, ends |-> <<>>]
    ELSE IF re[k].kind = "lit"
    THEN IF LitAt(s, i, re[k].str)
         THEN LET r == MatchFrom(re, k + 1, s, i + Len(re[k].str))
              IN  IF r.ok
                  THEN [ok |-> TRUE, ends |-> <<i + Len(re[k].str)>> \o r.ends]
                  ELSE NoMatch
         ELSE NoMatch
    ELSE TryRep(re, k, s, i, RunLen(s, i, re[k].cls))

\* The repetition re[k] taking n characters, then fewer: greedy, longest first.
TryRep(re, k, s, i, n) ==
    IF n < re[k].min THEN NoMatch
    ELSE LET r == MatchFrom(re, k + 1, s, i + n)
         IN  IF r.ok
             THEN [ok |-> TRUE, ends |-> <<i + n>> \o r.ends]
             ELSE TryRep(re, k, s, i, n - 1)

\* A variant that scans for the pattern anywhere in the line (re.search).
RECURSIVE SearchFrom(_, _, _)
SearchFrom(re, s, i) ==
    IF i > Len(s) THEN NoMatch
    ELSE LET r == MatchFrom(re, 1, s, i)
         IN  IF r.ok
             THEN [ok |-> TRUE, ends |-> r.ends, start |-> i]
             ELSE SearchFrom(re, s, i + 1)
ReSearch(re, s) == SearchFrom(re, s, 0)

\* re.match(s): the pattern at the start of s; anything may follow it.
ReMatch(re, s) ==
    LET r == MatchFrom(re, 1, s, 0)
    IN  [ok |-> r.ok, ends |-> r.ends, start |-> 0]

\* m.group(g) for the capture group that is item k of the pattern.
Group(s, m, k) ==
    SubSeq(s, (IF k = 1 THEN m.start ELSE m.ends[k - 1]) + 1, m.ends[k])

(***************************************************************************)
(* int(), str.split(sep) and str.strip(chars).                             *)
(***************************************************************************)
DigitValue(c) ==
    CASE c = "0" -> 0 [] c = "1" -> 1 [] c = "2" -> 2 [] c = "3" -> 3
      [] c = "4" -> 4 [] c = "5" -> 5 [] c = "6" -> 6 [] c = "7" -> 7
      [] c = "8" -> 8 [] c = "9" -> 9

RECURSIVE IntOf(_)
IntOf(ds) ==
    IF ds = <<>> THEN 0
    ELSE 10 * IntOf(SubSeq(ds, 1, Len(ds) - 1)) + DigitValue(ds[Len(ds)])

\* s.split(sep) for a one-character separator.
RECURSIVE Split(_, _)
Split(s, sep) ==
    LET cut == {i \in 1..Len(s) : s[i] = sep}
    IN  IF cut = {} THEN <<s>>
        ELSE LET i == CHOOSE j \in cut : \A l \in cut : j <= l
             IN  <<SubSeq(s, 1, i - 1)>> \o Split(SubSeq(s, i + 1, Len(s)), sep)

RECURSIVE LStrip(_, _)
LStrip(s, chars) ==
    IF s # <<>> /\ Head(s) \in chars THEN LStrip(Tail(s), chars) ELSE s

RECURSIVE RStrip(_, _)
RStrip(s, chars) ==
    IF s # <<>> /\ s[Len(s)] \in chars
    THEN RStrip(SubSeq(s, 1, Len(s) - 1), chars) ELSE s

\* A variant that strips every whitespace character and the double quote.
StripAllWhitespace(s) ==
    RStrip(LStrip(s, Whitespace \cup {"\""}), Whitespace \cup {"\""})

\* d.strip(' "')
Strip(s) == RStrip(LStrip(s, {" ", "\""}), {" ", "\""})


(***************************************************************************)
(* dict and OrderedDict.                                                   *)
(***************************************************************************)
EmptyDict == [k \in {} |-> 0]

\* A variant that keeps the value a key already has (dict.setdefault).
DictSetDefault(d, k, v) ==
    [x \in DOMAIN d \cup {k} |-> IF x \in DOMAIN d THEN d[x] ELSE v]

\* d[k] = v
DictSet(d, k, v) ==
    [x \in DOMAIN d \cup {k} |-> IF x = k THEN v ELSE d[x]]

\* A lookup d.get(k, 0) that never raises.
GetOrDefault(d, k) ==
    [raised |-> FALSE, value |-> IF k \in DOMAIN d THEN d[k] ELSE 0]

\* d[k]: the value, or KeyError raised.
GetItem(d, k) ==
    IF k \in DOMAIN d
    THEN [raised |-> FALSE, value |-> d[k]]
    ELSE [raised |-> TRUE, value |-> 0]

OdKeys(od) == [i \in 1..Len(od) |-> od[i][1]]

OdHas(od, k) == \E i \in 1..Len(od) : od[i][1] = k

OdRemove(od, k) == SelectSeq(od, LAMBDA kv : kv[1] # k)

\* A variant that moves an updated key to the end.
OdSetMoveToEnd(od, k, v) == Append(OdRemove(od, k), <<k, v>>)

\* od[k] = v on an OrderedDict: a new key goes last, a known key keeps its place.
OdSet(od, k, v) ==
    IF OdHas(od, k)
    THEN [i \in 1..Len(od) |-> IF od[i][1] = k THEN <<k, v>> ELSE od[i]]
    ELSE Append(od, <<k, v>>)

(***************************************************************************)
(* The two extractors' line functions and the merge's record.              *)
(***************************************************************************)
\* Line 58-60: the (name, value) an enum line yields, if it matches.
EnumLine(ln) ==
    LET m == ReMatch(ENUM_RE, ln)
    IN  IF m.ok
        THEN [ok |-> TRUE, name |-> Group(ln, m, EnumGroups[1]),
              value |-> IntOf(Group(ln, m, EnumGroups[2]))]
        ELSE [ok |-> FALSE, name |-> <<>>, value |-> 0]

\* A variant that leaves out the domains that are empty once stripped.
DomainsOfNonEmpty(span) ==
    LET parts == Split(span, ",")
    IN  SelectSeq([i \in 1..Len(parts) |-> Strip(parts[i])],
                  LAMBDA d : d # <<>>)

\* [d.strip(' "') for d in span.split(",")]
DomainsOf(span) ==
    LET parts == Split(span, ",")
    IN  [i \in 1..Len(parts) |-> Strip(parts[i])]

\* Line 65-68: whether a list line matches, and then its m.group(1), its
\* m.group(2) and the domains stored for it.
DomainListLine(ln) ==
    LET m == ReMatch(DOMAIN_LIST_RE, ln)
    IN  IF m.ok
        THEN LET span == Group(ln, m, DomainListGroups[2])
             IN  [ok |-> TRUE, name |-> Group(ln, m, DomainListGroups[1]),
                  span |-> span, domains |-> DomainsOf(span)]
        ELSE [ok |-> FALSE, name |-> <<>>, span |-> <<>>, domains |-> <<>>]

\* A variant that puts the keys in another order and sets excluded.
EntryExcludedFirst(type, domain_list) ==
    << <<"excluded", TRUE>>, <<"type", type>>, <<"domains", domain_list>> >>

\* Lines 73-76: the OrderedDict built for one group.
Entry(type, domain_list) ==
    << <<"type", type>>, <<"domains", domain_list>>, <<"excluded", FALSE>> >>

\* json.dump of one Python value of an entry: False is written false.
JsonValue(v) == IF v = FALSE THEN "false" ELSE IF v = TRUE THEN "true" ELSE v

\* json.dump(global_domains): the array of objects, members in each
\* OrderedDict's order.
JsonDump(gd) ==
    [i \in 1..Len(gd) |->
        [j \in 1..Len(gd[i]) |->
            <<gd[i][j][1],
              IF gd[i][j][1] = "excluded" THEN JsonValue(gd[i][j][2])
              ELSE gd[i][j][2]>>]]

(***************************************************************************)
(* The inputs: the command lines and the texts the two URLs may serve.     *)
(***************************************************************************)
Prog == "global_domains.py"
OutPath == "out.json"
Refs == {"main", "v1"}

RECURSIVE Extra(_)
Extra(n) == IF n = 0 THEN <<>> ELSE <<"extra">> \o Extra(n - 1)

\* sys.argv: the program name and up to MaxArgs arguments.
Argvs ==
    {<<Prog>>, <<Prog, OutPath>>}
      \cup {<<Prog, OutPath, r>> \o Extra(n) : r \in Refs, n \in 0..(MaxArgs - 2)}

EnumLineFoo0 == <<"F", "o", "o", " ", "=", " ", "0", ",">>
EnumLineBar1 == <<"\t", "B", "a", "r", "=", "1", ",">>
EnumLineFoo12 == <<"F", "o", "o", " ", "=", " ", "1", "2", ",">>
EnumLineComment == <<" ", " ", "/", "/", " ", "F", "o", "o", " ", "=", " ", "3">>
EnumLineBrace == <<"{">>
EnumLineNoValue == <<"B", "a", "r", " ", "=", " ", ",">>

EnumLines ==
    {EnumLineFoo0, EnumLineBar1, EnumLineFoo12, EnumLineComment, EnumLineBrace,
     EnumLineNoValue}

Foo == <<"F", "o", "o">>
Bar == <<"B", "a", "r">>
Baz == <<"B", "a", "z">>

\* lead GlobalDomains.Add(GlobalEquivalentDomainsType.<name>, new List<string> {<span>});
ListLine(lead, name, span) ==
    lead \o LitPrefix \o name \o <<",", " ">> \o LitNewList \o <<" ", "{">>
         \o span \o LitClose

\*  "a.com", " b.com "
SpanAB ==
    <<" ", "\"", "a", ".", "c", "o", "m", "\"", ",", " ", "\"", " ", "b",
      ".", "c", "o", "m", " ", "\"", " ">>
\*  <tab>"t.com", "z.com"
SpanTab ==
    <<"\t", "\"", "t", ".", "c", "o", "m", "\"", ",", " ", "\"", "z", ".",
      "c", "o", "m", "\"", " ">>
\*  "x.com",   (a trailing comma)
SpanTrailing == <<" ", "\"", "x", ".", "c", "o", "m", "\"", ",", " ">>
SpanBlank == <<" ">>
SpanN == <<" ", "\"", "n", ".", "c", "o", "m", "\"", " ">>

ListLineFooAB == ListLine(<<>>, Foo, SpanAB)
ListLineBarTab == ListLine(<<" ", " ">>, Bar, SpanTab)
ListLineFooTrailing == ListLine(<<>>, Foo, SpanTrailing)
ListLineBazBlank == ListLine(<<"\t">>, Baz, SpanBlank)
ListLineComment == ListLine(<<"/", "/", " ">>, Foo, SpanN)

ListLines ==
    {ListLineFooAB, ListLineBarTab, ListLineFooTrailing, ListLineBazBlank,
     ListLineComment}

\* The texts of 1..n lines over a set of lines.
Texts(lines, n) == UNION {[1..k -> lines] : k \in 1..n}

\* Every span of up to MaxSpanLen characters out of a blank, a tab, a double
\* quote, a comma and a letter, each in a one-line text for Foo.
SpanChars == {" ", "\t", "\"", ",", "a"}
ShortSpans == UNION {[1..k -> SpanChars] : k \in 1..MaxSpanLen}
ShortSpanTexts == {<<ListLine(<<>>, Foo, span)>> : span \in ShortSpans}

\* Every line of up to MaxEnumLineLen characters out of a blank, a letter, a
\* digit, "=" and "/", each in a one-line text.
EnumChars == {" ", "A", "1", "=", "/"}
ShortEnumLines == UNION {[1..k -> EnumChars] : k \in 0..MaxEnumLineLen}
ShortEnumTexts == {<<ln>> : ln \in ShortEnumLines}

EnumTexts == Texts(EnumLines, MaxEnumLines)
ListTexts == Texts(ListLines, MaxListLines) \cup ShortSpanTexts

\* The URL of a file of the upstream repository at a revision.
ENUMS_URL(ref) == <<ref, "src/Core/Enums/GlobalEquivalentDomainsType.cs">>
DOMAIN_LISTS_URL(ref) == <<ref, "src/Core/Utilities/StaticStore.cs">>

\* The four lines the usage path prints.
UsageText(prog) ==
    << <<"usage: ", prog, " <OUTPUT-FILE> [GIT-REF]">>,
       <<>>,
       <<"This script generates a global equivalent domains JSON file from">>,
       <<"the upstream Bitwarden source repo.">> >>

(***************************************************************************)
(* The state of one run.                                                   *)
(***************************************************************************)
VARIABLES
    argv,            \* sys.argv
    pc,              \* the line the run stands at, or "exit"
    OUTPUT_FILE,     \* "" until line 20
    GIT_REF,         \* "" until line 21
    enums,           \* dict: name -> int
    domain_lists,    \* OrderedDict: name -> list of domains
    enumLines,       \* the list the loop of line 57 iterates over
    ei,              \* its next index
    listLines,       \* the list the loop of line 64 iterates over, kept after
                     \* the loop as the record of the text the output is from
    li,              \* its next index
    global_domains,  \* list of entries
    mi,              \* the next item of domain_lists.items() in the loop of line 72
    file,            \* the output file: untouched, truncated or written, and its data
    opens,           \* the calls of open() made
    stdout,          \* the lines printed
    exitcode,        \* <<>> while running, <<status>> once exited
    exc,             \* the uncaught exception, "" if none
    urlopens,        \* the URLs urlopen was called with, in order
    log              \* the pipeline steps entered, in order

vars ==
    <<argv, pc, OUTPUT_FILE, GIT_REF, enums, domain_lists, enumLines, ei,
      listLines, li, global_domains, mi, file, opens, stdout, exitcode, exc,
      urlopens, log>>

Init ==
    /\ argv \in Argvs
    /\ pc = "L13"
    /\ OUTPUT_FILE = ""
    /\ GIT_REF = ""
    /\ enums = EmptyDict
    /\ domain_lists = <<>>
    /\ enumLines = <<>>
    /\ ei = 0
    /\ listLines = <<>>
    /\ li = 0
    /\ global_domains = <<>>
    /\ mi = 0
    /\ file = [state |-> "untouched", data |-> <<>>]
    /\ opens = 0
    /\ stdout = <<>>
    /\ exitcode = <<>>
    /\ exc = ""
    /\ urlopens = <<>>
    /\ log = <<>>

\* The step a line belongs to is entered: noted once.
Enter(step) ==
    log' = IF log # <<>> /\ log[Len(log)] = step THEN log ELSE Append(log, step)

\* An exception nobody catches: the traceback, then exit status 1.
Uncaught(e) ==
    /\ pc' = "exit"
    /\ exc' = e
    /\ exitcode' = <<1>>

\* A variant that takes any count of two or more.
ArgcAtLeastTwo(n) == 2 <= n

\* Line 13: 2 <= len(sys.argv) <= 3
ArgcOk(n) == 2 <= n /\ n <= 3

\* Lines 13-18: the usage message and exit status 1.
ArgCheckUsage ==
    /\ pc = "L13"
    /\ ~ArgcOk(Len(argv))
    /\ stdout' = stdout \o UsageText(argv[1])
    /\ exitcode' = <<1>>
    /\ pc' = "exit"
    /\ UNCHANGED <<argv, OUTPUT_FILE, GIT_REF, enums, domain_lists, enumLines,
                   ei, listLines, li, global_domains, mi, file, opens, exc,
                   urlopens, log>>

\* Lines 13-53: the arguments are taken and the two mappings start empty.
ArgCheckOk ==
    /\ pc = "L13"
    /\ ArgcOk(Len(argv))
    /\ OUTPUT_FILE' = argv[2]
    /\ GIT_REF' = IF Len(argv) = 2 THEN "main" ELSE argv[3]
    /\ enums' = EmptyDict
    /\ domain_lists' = <<>>
    /\ pc' = "L56"
    /\ UNCHANGED <<argv, enumLines, ei, listLines, li, global_domains, mi, file,
                   opens, stdout, exitcode, exc, urlopens, log>>

\* Where the run goes with the enum text in hand.
PcSkipEnumParse == "L63"
PcAfterFetchEnums == "L57"

\* Lines 56-57: the enum file is fetched, decoded and split into lines; the
\* file holds one of texts.
FetchEnumsFrom(texts) ==
    /\ pc = "L56"
    /\ \E text \in texts : enumLines' = text
    /\ ei' = 1
    /\ urlopens' = Append(urlopens, ENUMS_URL(GIT_REF))
    /\ Enter("fetch_enums")
    /\ pc' = PcAfterFetchEnums
    /\ UNCHANGED <<argv, OUTPUT_FILE, GIT_REF, enums, domain_lists, listLines,
                   li, global_domains, mi, file, opens, stdout, exitcode, exc>>

FetchEnumsOk == FetchEnumsFrom(EnumTexts)

FetchEnumsShortOk == FetchEnumsFrom(EnumTexts \cup ShortEnumTexts)

\* Line 56-57: urlopen, read or decode raises.
FetchEnumsFail ==
    /\ pc = "L56"
    /\ urlopens' = Append(urlopens, ENUMS_URL(GIT_REF))
    /\ Enter("fetch_enums")
    /\ Uncaught("URLError")
    /\ UNCHANGED <<argv, OUTPUT_FILE, GIT_REF, enums, domain_lists, enumLines,
                   ei, listLines, li, global_domains, mi, file, opens, stdout>>

\* Lines 57-60: one line of the enum text.
ParseEnumLine ==
    /\ pc = "L57"
    /\ LET e == EnumLine(enumLines[ei])
       IN  enums' = IF e.ok THEN DictSet(enums, e.name, e.value) ELSE enums
    /\ Enter("parse_enums")
    /\ IF ei = Len(enumLines)
       THEN pc' = "L60" /\ ei' = ei
       ELSE pc' = "L57" /\ ei' = ei + 1
    /\ UNCHANGED <<argv, OUTPUT_FILE, GIT_REF, domain_lists, enumLines,
                   listLines, li, global_domains, mi, file, opens, stdout,
                   exitcode, exc, urlopens>>

\* Line 60, the end of the with block: the loop is over, the response is
\* closed and the list of the enum text's lines is gone.
CloseEnumsResponse ==
    /\ pc = "L60"
    /\ enumLines' = <<>>
    /\ ei' = 0
    /\ pc' = "L63"
    /\ UNCHANGED <<argv, OUTPUT_FILE, GIT_REF, enums, domain_lists, listLines,
                   li, global_domains, mi, file, opens, stdout, exitcode, exc,
                   urlopens, log>>

\* Lines 63-64: the domain-list file is fetched, decoded and split into lines.
FetchListsOk ==
    /\ pc = "L63"
    /\ \E text \in ListTexts : listLines' = text
    /\ li' = 1
    /\ urlopens' = Append(urlopens, DOMAIN_LISTS_URL(GIT_REF))
    /\ Enter("fetch_lists")
    /\ pc' = "L64"
    /\ UNCHANGED <<argv, OUTPUT_FILE, GIT_REF, enums, domain_lists, enumLines,
                   ei, global_domains, mi, file, opens, stdout, exitcode, exc>>

\* A variant that tries the fetch again.
FetchListsFailRetry ==
    /\ pc = "L63"
    /\ urlopens' = Append(urlopens, DOMAIN_LISTS_URL(GIT_REF))
    /\ Enter("fetch_lists")
    /\ UNCHANGED <<argv, pc, OUTPUT_FILE, GIT_REF, enums, domain_lists,
                   enumLines, ei, listLines, li, global_domains, mi, file,
                   opens, stdout, exitcode, exc>>

\* Lines 63-64: urlopen, read or decode raises.
FetchListsFail ==
    /\ pc = "L63"
    /\ urlopens' = Append(urlopens, DOMAIN_LISTS_URL(GIT_REF))
    /\ Enter("fetch_lists")
    /\ Uncaught("URLError")
    /\ UNCHANGED <<argv, OUTPUT_FILE, GIT_REF, enums, domain_lists, enumLines,
                   ei, listLines, li, global_domains, mi, file, opens, stdout>>

\* Lines 64-68: one line of the domain-list text.
ParseListLine ==
    /\ pc = "L64"
    /\ LET d == DomainListLine(listLines[li])
       IN  domain_lists' =
             IF d.ok THEN OdSet(domain_lists, d.name, d.domains)
             ELSE domain_lists
    /\ Enter("parse_lists")
    /\ IF li = Len(listLines)
       THEN pc' = "L71" /\ li' = li
       ELSE pc' = "L64" /\ li' = li + 1
    /\ UNCHANGED <<argv, OUTPUT_FILE, GIT_REF, enums, enumLines, ei, listLines,
                   global_domains, mi, file, opens, stdout, exitcode, exc,
                   urlopens>>

\* Line 71: global_domains = []
MergeInit ==
    /\ pc = "L71"
    /\ global_domains' = <<>>
    /\ mi' = 1
    /\ Enter("merge")
    /\ pc' = "L72"
    /\ UNCHANGED <<argv, OUTPUT_FILE, GIT_REF, enums, domain_lists, enumLines,
                   ei, listLines, li, file, opens, stdout, exitcode, exc,
                   urlopens>>

\* Lines 72-77: one group becomes one entry.
MergeEntry ==
    /\ pc = "L72"
    /\ mi <= Len(domain_lists)
    /\ LET name == domain_lists[mi][1]
           domain_list == domain_lists[mi][2]
           type == GetItem(enums, name)
       IN  /\ ~type.raised
           /\ global_domains' =
                Append(global_domains, Entry(type.value, domain_list))
    /\ mi' = mi + 1
    /\ Enter("merge")
    /\ UNCHANGED <<argv, pc, OUTPUT_FILE, GIT_REF, enums, domain_lists,
                   enumLines, ei, listLines, li, file, opens, stdout, exitcode,
                   exc, urlopens>>

\* Line 74: enums[name] raises KeyError.
MergeKeyError ==
    /\ pc = "L72"
    /\ mi <= Len(domain_lists)
    /\ GetItem(enums, domain_lists[mi][1]).raised
    /\ Enter("merge")
    /\ Uncaught("KeyError")
    /\ UNCHANGED <<argv, OUTPUT_FILE, GIT_REF, enums, domain_lists, enumLines,
                   ei, listLines, li, global_domains, mi, file, opens, stdout,
                   urlopens>>

\* Line 72: the items are exhausted.
MergeDone ==
    /\ pc = "L72"
    /\ mi > Len(domain_lists)
    /\ pc' = "L80"
    /\ UNCHANGED <<argv, OUTPUT_FILE, GIT_REF, enums, domain_lists, enumLines,
                   ei, listLines, li, global_domains, mi, file, opens, stdout,
                   exitcode, exc, urlopens, log>>

\* Line 80: open(mode='w') creates or truncates the file.
OpenOutputOk ==
    /\ pc = "L80"
    /\ opens' = opens + 1
    /\ file' = [state |-> "truncated", data |-> <<>>]
    /\ Enter("write")
    /\ pc' = "L81"
    /\ UNCHANGED <<argv, OUTPUT_FILE, GIT_REF, enums, domain_lists, enumLines,
                   ei, listLines, li, global_domains, mi, stdout, exitcode, exc,
                   urlopens>>

\* Line 80: open raises (no such directory, no permission).
OpenOutputFail ==
    /\ pc = "L80"
    /\ opens' = opens + 1
    /\ Enter("write")
    /\ Uncaught("OSError")
    /\ UNCHANGED <<argv, OUTPUT_FILE, GIT_REF, enums, domain_lists, enumLines,
                   ei, listLines, li, global_domains, mi, file, stdout,
                   urlopens>>

\* Line 81: the array is written, the file closed, and the run ends with status 0.
Dump ==
    /\ pc = "L81"
    /\ file' = [state |-> "written", data |-> JsonDump(global_domains)]
    /\ Enter("write")
    /\ exitcode' = <<0>>
    /\ pc' = "exit"
    /\ UNCHANGED <<argv, OUTPUT_FILE, GIT_REF, enums, domain_lists, enumLines,
                   ei, listLines, li, global_domains, mi, opens, stdout, exc,
                   urlopens>>

Next ==
    \/ ArgCheckUsage
    \/ ArgCheckOk
    \/ FetchEnumsOk
    \/ FetchEnumsFail
    \/ ParseEnumLine
    \/ CloseEnumsResponse
    \/ FetchListsOk
    \/ FetchListsFail
    \/ ParseListLine
    \/ MergeInit
    \/ MergeEntry
    \/ MergeKeyError
    \/ MergeDone
    \/ OpenOutputOk
    \/ OpenOutputFail
    \/ Dump

Spec == Init /\ [][Next]_vars

\* The run up to the end of the enum extractor, over the short enum lines too.
NextEnums ==
    \/ ArgCheckUsage
    \/ ArgCheckOk
    \/ FetchEnumsShortOk
    \/ FetchEnumsFail
    \/ ParseEnumLine
    \/ CloseEnumsResponse

SpecEnums == Init /\ [][NextEnums]_vars

(***************************************************************************)
(* What the properties below are stated with.                              *)
(***************************************************************************)
Range(q) == {q[i] : i \in 1..Len(q)}

IsPrefix(p, q) == Len(p) <= Len(q) /\ \A i \in 1..Len(p) : p[i] = q[i]

\* The lines of each text the loops have been through.
ProcessedEnumLines ==
    IF pc = "L57" THEN SubSeq(enumLines, 1, ei - 1) ELSE enumLines
ProcessedListLines ==
    IF pc = "L64" THEN SubSeq(listLines, 1, li - 1) ELSE listLines

\* The enum text is (partly) parsed and still at hand.
EnumTextAtHand == pc \in {"L57", "L60"}

\* The merge loop has been through every group.
Merged == pc \in {"L80", "L81"} \/ (pc = "exit" /\ exitcode = <<0>>)

\* The matching lines among list lines, as (name, span, domains).
ListMatchesOf(lines) ==
    SelectSeq([i \in 1..Len(lines) |-> DomainListLine(lines[i])],
              LAMBDA r : r.ok)

\* The names of a sequence, each at the place of its first occurrence.
RECURSIVE FirstSeen(_)
FirstSeen(names) ==
    IF names = <<>> THEN <<>>
    ELSE LET front == FirstSeen(SubSeq(names, 1, Len(names) - 1))
             last == names[Len(names)]
         IN  IF last \in Range(front) THEN front ELSE Append(front, last)

NamesOf(ms) == FirstSeen([i \in 1..Len(ms) |-> ms[i].name])

\* The last of the matches ms that has the name.
LastOf(ms, name) ==
    LET idx == {i \in 1..Len(ms) : ms[i].name = name}
    IN  ms[CHOOSE i \in idx : \A j \in idx : j <= i]

Chars(str) == CASE str = "a.com" -> <<"a", ".", "c", "o", "m">>
                [] str = "b.com" -> <<"b", ".", "c", "o", "m">>
                [] str = "x.com" -> <<"x", ".", "c", "o", "m">>
                [] str = "z.com" -> <<"z", ".", "c", "o", "m">>
                [] str = "tab-quote-t.com" ->
                       <<"\t", "\"", "t", ".", "c", "o", "m">>

(***************************************************************************)
(* C1: the output records stand in the order in which each group           *)
(* identifier was first seen in the list text, whatever the enum codes; an *)
(* identifier seen again keeps the place of its first occurrence and       *)
(* carries the domain list of its last occurrence.                         *)
(***************************************************************************)
C1_FirstSeenOrder ==
    LET ms == ListMatchesOf(ProcessedListLines)
        names == NamesOf(ms)
        last == SelectSeq([i \in 1..Len(names) |-> LastOf(ms, names[i])],
                          LAMBDA r : TRUE)
    IN  /\ OdKeys(domain_lists) = names
        /\ \A i \in 1..Len(domain_lists) : domain_lists[i][2] = last[i].domains
        /\ Len(global_domains) <= Len(names)
        /\ \A i \in 1..Len(global_domains) :
              /\ global_domains[i][2][2] = last[i].domains
              /\ global_domains[i][1][2] = enums[names[i]]
        /\ Merged => Len(global_domains) = Len(names)
        /\ file.state = "written" =>
              /\ Len(file.data) = Len(names)
              /\ \A i \in 1..Len(file.data) :
                    /\ file.data[i][2][2] = last[i].domains
                    /\ file.data[i][1][2] = enums[names[i]]

\* Foo, Bar, Foo with Foo's code above Bar's: Foo's record is first, with the
\* domains of Foo's second line.
C1_Witness ==
    /\ file.state = "written"
    /\ LET ms == ListMatchesOf(listLines)
       IN  /\ Len(ms) = 3
           /\ ms[1].name = ms[3].name
           /\ ms[1].name # ms[2].name
           /\ ms[1].domains # ms[3].domains
           /\ Len(file.data) = 2
           /\ file.data[1][1][2] > file.data[2][1][2]
           /\ file.data[1][2][2] = ms[3].domains

EnumMatchesOf(lines) ==
    SelectSeq([i \in 1..Len(lines) |-> EnumLine(lines[i])], LAMBDA r : r.ok)

(***************************************************************************)
(* C2: the type of every output record is the enum mapping's value for the *)
(* record's group name, and the enum mapping holds for each identifier the *)
(* integer of its last matching line of the enum text.                     *)
(***************************************************************************)
C2_TypeIsLastEnumValue ==
    /\ EnumTextAtHand =>
          LET ms == EnumMatchesOf(ProcessedEnumLines)
          IN  /\ DOMAIN enums = {ms[i].name : i \in 1..Len(ms)}
              /\ \A name \in DOMAIN enums : enums[name] = LastOf(ms, name).value
    /\ \A i \in 1..Len(global_domains) :
          /\ domain_lists[i][1] \in DOMAIN enums
          /\ global_domains[i][1] = <<"type", enums[domain_lists[i][1]]>>
    /\ file.state = "written" =>
          \A i \in 1..Len(file.data) :
             file.data[i][1] = <<"type", enums[domain_lists[i][1]]>>

\* Two records are written, Foo's with the 12 that the mapping holds for Foo.
C2_Witness ==
    /\ file.state = "written"
    /\ Len(file.data) = 2
    /\ Foo \in DOMAIN enums /\ enums[Foo] = 12
    /\ \E i \in 1..Len(file.data) :
          domain_lists[i][1] = Foo /\ file.data[i][1][2] = 12

MissingName == \E i \in 1..Len(domain_lists) : domain_lists[i][1] \notin DOMAIN enums

(***************************************************************************)
(* C3: a group name with no entry in the enum mapping ends the run in a    *)
(* KeyError before the output file is opened: the file is never created,   *)
(* truncated or written, wherever the name stands among the groups.        *)
(***************************************************************************)
C3_MissingNameNoOutput ==
    MissingName =>
       /\ file = [state |-> "untouched", data |-> <<>>]
       /\ opens = 0
       /\ pc \notin {"L80", "L81"}
       /\ pc = "exit" => exc = "KeyError" /\ exitcode = <<1>>
       /\ pc = "L72" /\ mi <= Len(domain_lists)
                     /\ domain_lists[mi][1] \notin DOMAIN enums
             => ~ENABLED MergeEntry /\ ~ENABLED MergeDone

\* The missing name is the second group: one entry was built, then KeyError.
C3_Witness ==
    /\ pc = "exit" /\ exc = "KeyError"
    /\ Len(global_domains) = 1
    /\ domain_lists[1][1] \in DOMAIN enums
    /\ domain_lists[2][1] \notin DOMAIN enums
    /\ file.state = "untouched"

UsagePathTaken == stdout # <<>>

ArgCountRule ==
    pc # "L13" =>
       IF Len(argv) - 1 = 0 \/ Len(argv) - 1 > 2
       THEN /\ stdout = UsageText(argv[1])
            /\ pc = "exit" /\ exitcode = <<1>> /\ exc = ""
            /\ urlopens = <<>>
            /\ opens = 0 /\ file = [state |-> "untouched", data |-> <<>>]
       ELSE /\ ~UsagePathTaken
            /\ OUTPUT_FILE = argv[2]
            /\ \A i \in 1..Len(urlopens) : urlopens[i][1] = GIT_REF

(***************************************************************************)
(* C4 as stated: zero or more than two arguments give the usage message,   *)
(* exit status 1, no fetch and an untouched output file; one or two        *)
(* arguments never take the usage path; and GIT_REF is "main" exactly when *)
(* the second argument is omitted.                                         *)
(***************************************************************************)
C4_MainExactlyWhenOmitted ==
    /\ ArgCountRule
    /\ pc # "L13" /\ ~UsagePathTaken => (GIT_REF = "main" <=> Len(argv) = 2)

(***************************************************************************)
(* C4 as amended: the same, except that GIT_REF is "main" whenever the     *)
(* second argument is omitted and is the second argument itself otherwise  *)
(* (which may be "main" too).                                              *)
(***************************************************************************)
C4_UsageAndDefaultRef ==
    /\ ArgCountRule
    /\ pc # "L13" /\ ~UsagePathTaken =>
          GIT_REF = IF Len(argv) = 2 THEN "main" ELSE argv[3]

\* Three arguments after the program name: the usage path was taken.
C4_Witness ==
    /\ Len(argv) - 1 > 2
    /\ pc = "exit" /\ exitcode = <<1>>
    /\ stdout = UsageText(Prog)
    /\ urlopens = <<>> /\ file.state = "untouched"

(***************************************************************************)
(* C5: a failure of either fetch ends the run at once, with no retry (no   *)
(* URL is ever requested twice), and the output file is never opened or    *)
(* written.                                                                *)
(***************************************************************************)
C5_FetchFailureIsFatal ==
    /\ Len(urlopens) <= 2
    /\ \A i, j \in 1..Len(urlopens) : urlopens[i] = urlopens[j] => i = j
    /\ Len(urlopens) >= 1 => urlopens[1] = ENUMS_URL(GIT_REF)
    /\ Len(urlopens) = 2 => urlopens[2] = DOMAIN_LISTS_URL(GIT_REF)
    /\ exc = "URLError" =>
          /\ pc = "exit" /\ exitcode = <<1>>
          /\ ~ENABLED Next
          /\ opens = 0 /\ file = [state |-> "untouched", data |-> <<>>]
          /\ listLines = <<>> /\ domain_lists = <<>> /\ global_domains = <<>>

\* The second fetch failed, after the enum text gave two entries.
C5_Witness ==
    /\ exc = "URLError"
    /\ Len(urlopens) = 2
    /\ Cardinality(DOMAIN enums) = 2
    /\ file.state = "untouched"

(***************************************************************************)
(* The comma-separated fragments of a span, by the places of its commas.   *)
(***************************************************************************)
Commas(span) == {i \in 1..Len(span) : span[i] = ","}

\* The place of the k-th comma; 0 before the first, Len + 1 after the last.
CommaAt(span, k) ==
    IF k = 0 THEN 0
    ELSE IF k > Cardinality(Commas(span)) THEN Len(span) + 1
    ELSE CHOOSE i \in Commas(span) :
            Cardinality({j \in Commas(span) : j < i}) = k - 1

Fragment(span, k) ==
    SubSeq(span, CommaAt(span, k - 1) + 1, CommaAt(span, k) - 1)

\* f without the characters of drop at its two ends.
Trimmed(f, drop) ==
    LET keep == {i \in 1..Len(f) : f[i] \notin drop}
    IN  IF keep = {} THEN <<>>
        ELSE SubSeq(f, CHOOSE i \in keep : \A j \in keep : i <= j,
                       CHOOSE i \in keep : \A j \in keep : j <= i)

\* The mapping holds, for each name in first-seen order, the fragments of its
\* last matching line's span, each trimmed of the characters of drop.
StoredAreTrimmedFragments(drop) ==
    LET ms == ListMatchesOf(ProcessedListLines)
        names == NamesOf(ms)
    IN  /\ OdKeys(domain_lists) = names
        /\ \A i \in 1..Len(domain_lists) :
              LET span == LastOf(ms, names[i]).span
                  stored == domain_lists[i][2]
              IN  /\ Len(stored) = Cardinality(Commas(span)) + 1
                  /\ \A k \in 1..Len(stored) :
                        stored[k] = Trimmed(Fragment(span, k), drop)
                  /\ span = SpanAB => stored = <<Chars("a.com"), Chars("b.com")>>

(***************************************************************************)
(* C6 as stated: a matching line stores the comma-separated fragments of   *)
(* its span, each stripped of surrounding whitespace and double quotes;    *)
(* "a.com", " b.com " gives [a.com, b.com]; other lines store nothing.     *)
(***************************************************************************)
C6_StripsWhitespaceAndQuotes ==
    StoredAreTrimmedFragments(Whitespace \cup {"\""})

(***************************************************************************)
(* C6 as amended: each fragment is stripped, at its two ends only, of      *)
(* space characters and double quotes; any other whitespace, such as a     *)
(* tab, stops the stripping and is kept with what follows it.              *)
(***************************************************************************)
C6_StripsSpacesAndQuotes ==
    StoredAreTrimmedFragments({" ", "\""})

\* Foo's line of the example, a line that does not match, and Bar's line
\* with a tab before its first domain.
C6_Witness ==
    /\ pc = "L71"
    /\ listLines = <<ListLineFooAB, ListLineComment, ListLineBarTab>>
    /\ domain_lists =
         << <<Foo, <<Chars("a.com"), Chars("b.com")>> >>,
            <<Bar, <<Chars("tab-quote-t.com"), Chars("z.com")>> >> >>

AllIn(ln, a, b, cls) == \A i \in a..b : InClass(ln[i], cls)

\* The ways a line begins as the sentence says: <<a, b, c, d, e>> with
\* whitespace to a, the identifier to b, whitespace to c, "=" at c + 1,
\* whitespace to d, the digits to e.
EnumShapes(ln) ==
    LET n == Len(ln)
        As == {a \in 0..n : AllIn(ln, 1, a, "s")}
        Bs(a) == {b \in (a + 1)..n : AllIn(ln, a + 1, b, "w")}
        Cs(b) == {c \in b..(n - 1) : AllIn(ln, b + 1, c, "s") /\ ln[c + 1] = "="}
        Ds(c) == {d \in (c + 1)..n : AllIn(ln, c + 2, d, "s")}
        Es(d) == {e \in (d + 1)..n : AllIn(ln, d + 1, e, "d")}
    IN  UNION {UNION {UNION {UNION {{<<a, b, c, d, e>> : e \in Es(d)}
          : d \in Ds(c)} : c \in Cs(b)} : b \in Bs(a)} : a \in As}

\* The entry of a line that has a shape: its identifier and all its digits.
EnumEntry(ln) ==
    LET shapes == EnumShapes(ln)
        p == CHOOSE q \in shapes : \A r \in shapes : r[5] <= q[5]
    IN  [ok |-> shapes # {},
         name |-> IF shapes = {} THEN <<>> ELSE SubSeq(ln, p[1] + 1, p[2]),
         value |-> IF shapes = {} THEN 0 ELSE IntOf(SubSeq(ln, p[4] + 1, p[5]))]

(***************************************************************************)
(* C7: a line adds an entry exactly when it begins with optional           *)
(* whitespace, an identifier, optional whitespace, "=", optional           *)
(* whitespace and a non-negative integer; any other line, such as the      *)
(* comment "  // Foo = 3" or a lone "{", leaves the mapping unchanged.     *)
(***************************************************************************)
C7_EntryExactlyForEnumLines ==
    EnumTextAtHand =>
       LET all == SelectSeq([i \in 1..Len(ProcessedEnumLines) |->
                               EnumEntry(ProcessedEnumLines[i])],
                            LAMBDA r : TRUE)
           ms == SelectSeq(all, LAMBDA r : r.ok)
       IN  /\ DOMAIN enums = {ms[i].name : i \in 1..Len(ms)}
           /\ \A name \in DOMAIN enums : enums[name] = LastOf(ms, name).value
           /\ \A i \in 1..Len(all) :
                 ProcessedEnumLines[i] \in {EnumLineComment, EnumLineBrace}
                    => ~all[i].ok

\* Foo = 0, then the comment line: the mapping is Foo -> 0 alone.
C7_Witness ==
    /\ pc = "L60"
    /\ enumLines = <<EnumLineFoo0, EnumLineComment>>
    /\ DOMAIN enums = {Foo} /\ enums[Foo] = 0

(***************************************************************************)
(* C8 as stated: the steps of a run come in the order fetch of the enum    *)
(* text, fetch of the list text, parse of the enum text, parse of the list *)
(* text, merge, write: the second fetch comes before any parsing.          *)
(***************************************************************************)
C8_BothFetchesFirst ==
    /\ IsPrefix(log, <<"fetch_enums", "fetch_lists", "parse_enums",
                       "parse_lists", "merge", "write">>)
    /\ exitcode = <<0>> => Len(log) = 6

(***************************************************************************)
(* C8 as amended: the steps of a run come in the order fetch of the enum   *)
(* text, parse of the enum text, fetch of the list text, parse of the list *)
(* text, merge, write: the second fetch comes only once the whole enum     *)
(* text is parsed.                                                         *)
(***************************************************************************)
C8_FetchParseFetchParse ==
    /\ IsPrefix(log, <<"fetch_enums", "parse_enums", "fetch_lists",
                       "parse_lists", "merge", "write">>)
    /\ exitcode = <<0>> => Len(log) = 6
    /\ Len(urlopens) = 2 => Len(log) >= 3
    /\ pc = "L60" => ei = Len(enumLines)
    /\ pc = "L63" => enumLines = <<>> /\ log = <<"fetch_enums", "parse_enums">>
    /\ pc = "L71" => li = Len(listLines) /\ Len(log) = 4

\* A run that went through all six steps.
C8_Witness ==
    /\ exitcode = <<0>>
    /\ log = <<"fetch_enums", "parse_enums", "fetch_lists", "parse_lists",
               "merge", "write">>
    /\ file.state = "written"

(***************************************************************************)
(* C9: the written output holds exactly one record for each distinct group *)
(* identifier of the list text; each record has the keys type, domains and *)
(* excluded, in that order, with excluded false; and the file is opened    *)
(* once only, after the whole record sequence is built.                    *)
(***************************************************************************)
C9_OneRecordPerGroup ==
    /\ opens <= 1
    /\ opens = 1 =>
          /\ pc \in {"L81", "exit"}
          /\ Len(global_domains) = Len(domain_lists)
    /\ file.state # "untouched" => opens = 1 /\ exc = ""
    /\ file.state = "truncated" => pc = "L81" /\ file.data = <<>>
    /\ \A i \in 1..Len(global_domains) :
          /\ Len(global_domains[i]) = 3
          /\ global_domains[i][3] = <<"excluded", FALSE>>
    /\ file.state = "written" =>
          LET ms == ListMatchesOf(listLines)
              ids == {ms[i].name : i \in 1..Len(ms)}
          IN  /\ pc = "exit" /\ exitcode = <<0>>
              /\ Len(file.data) = Cardinality(ids)
              /\ \A id \in ids :
                    Cardinality({i \in 1..Len(file.data) :
                                    domain_lists[i][1] = id}) = 1
              /\ \A i \in 1..Len(file.data) :
                    /\ Len(file.data[i]) = 3
                    /\ file.data[i][1][1] = "type"
                    /\ file.data[i][1][2] \in Nat
                    /\ file.data[i][2][1] = "domains"
                    /\ file.data[i][2][2] = domain_lists[i][2]
                    /\ file.data[i][3] = <<"excluded", "false">>

\* Three matching lines of two identifiers: two records are written.
C9_Witness ==
    /\ file.state = "written"
    /\ Len(ListMatchesOf(listLines)) = 3
    /\ Len(file.data) = 2
    /\ opens = 1

NoComma(domains) ==
    \A k \in 1..Len(domains) : \A j \in 1..Len(domains[k]) : domains[k][j] # ","

(***************************************************************************)
(* C10: the domains stored for a matching line are one more than the       *)
(* commas of its span, so never none; an empty fragment is kept as an      *)
(* empty domain (a span of blanks gives one empty domain, a trailing comma *)
(* a last empty domain); so every output record has a domain and no domain *)
(* holds a comma.                                                          *)
(***************************************************************************)
C10_OneMoreThanCommas ==
    LET ms == ListMatchesOf(ProcessedListLines)
        names == NamesOf(ms)
    IN  /\ Len(domain_lists) = Len(names)
        /\ \A i \in 1..Len(domain_lists) :
              LET span == LastOf(ms, names[i]).span
                  stored == domain_lists[i][2]
                  blank(f) == \A j \in 1..Len(f) : f[j] = " "
              IN  /\ Len(stored) = Cardinality(Commas(span)) + 1
                  /\ Len(stored) >= 1
                  /\ NoComma(stored)
                  /\ \A k \in 1..Len(stored) :
                        blank(Fragment(span, k)) => stored[k] = <<>>
                  /\ blank(span) => stored = << <<>> >>
        /\ \A i \in 1..Len(global_domains) :
              Len(global_domains[i][2][2]) >= 1 /\ NoComma(global_domains[i][2][2])
        /\ \A i \in 1..Len(file.data) :
              Len(file.data[i][2][2]) >= 1 /\ NoComma(file.data[i][2][2])

\* A span with a trailing comma and a span of one blank, both stored.
C10_Witness ==
    /\ pc = "L71"
    /\ listLines = <<ListLineFooTrailing, ListLineBazBlank>>
    /\ domain_lists =
         << <<Foo, <<Chars("x.com"), <<>> >> >>, <<Baz, << <<>> >> >> >>

=============================================================================
